---- MODULE Spec2Model ----
(***************************************************************************)
(* Model of the movie-recommender server (src/server/server.js): the genre *)
(* cache and its periodic refresh, and the POST /api/respond pipeline      *)
(* classifyRequest -> generateTMDBQuery -> fetchFromTMDB ->                *)
(* refineResultsWithAI, or generateNormalResponse.                         *)
(*                                                                         *)
(* Text is a sequence of tokens; the tokens "&", "=", ",", "|", " " are    *)
(* the characters the code splits, joins, trims or encodes on, every other *)
(* token is an opaque run of ordinary characters.                          *)
(* A JavaScript value is a record [k, n, s, e]: k its kind, n the number,  *)
(* s the text, e the entries (key, value, in insertion order) of an        *)
(* object.                                                                 *)
(***************************************************************************)
EXTENDS Integers, Sequences, FiniteSets, TLC

\* ---------------------------------------------------------------- bounds
\* Most fields a synthesized query object carries (SpecExec).
MaxFields == 2
\* Genre refreshes the process runs (the one at start included).
MaxRefresh == 2
\* Most items a discovery response carries.
MaxItems == 2
\* Most messages a request carries.
MaxMsgs == 2
\* Sends the chat client makes in one behaviour.
MaxSends == 2

\* ------------------------------------------------------ JavaScript values
Undefined == [k |-> "undefined", n |-> 0, s |-> <<>>, e |-> <<>>]
Null == [k |-> "null", n |-> 0, s |-> <<>>, e |-> <<>>]
Arr == [k |-> "arr", n |-> 0, s |-> <<>>, e |-> <<>>]
Num(x) == [k |-> "num", n |-> x, s |-> <<>>, e |-> <<>>]
Str(t) == [k |-> "str", n |-> 0, s |-> t, e |-> <<>>]
Obj(entries) == [k |-> "obj", n |-> 0, s |-> <<>>, e |-> entries]
\* A built-in function; s is the text String() gives for it.
Fn(t) == [k |-> "fn", n |-> 0, s |-> t, e |-> <<>>]
Entry(key, val) == [key |-> key, val |-> val]

\* JavaScript truthiness: "", 0, null and undefined are falsy.
Truthy(v) ==
  CASE v.k = "str" -> v.s # <<>>
    [] v.k = "num" -> v.n # 0
    [] v.k \in {"arr", "obj", "fn"} -> TRUE
    [] OTHER -> FALSE

\* String(v), as a template literal or join() coerces a value.
ToStr(v) ==
  CASE v.k \in {"str", "fn"} -> v.s
    [] v.k = "num" -> <<ToString(v.n)>>
    [] v.k = "arr" -> <<>>
    [] v.k = "obj" -> <<"[object Object]">>
    [] OTHER -> <<v.k>>

\* Own enumerable keys, in for...in order: an object's keys, a string's
\* indices; numbers and arrays without elements have none.
RECURSIVE EntryKeys(_)
EntryKeys(es) ==
  IF es = <<>> THEN <<>> ELSE <<Head(es).key>> \o EntryKeys(Tail(es))

OwnKeys(v) ==
  CASE v.k = "obj" -> EntryKeys(v.e)
    [] v.k = "str" -> [i \in 1..Len(v.s) |-> ToString(i - 1)]
    [] OTHER -> <<>>

HasKey(v, key) ==
  v.k = "obj" /\ \E i \in 1..Len(v.e) : v.e[i].key = key

\* v[key] on a value that is not null: undefined unless an own property.
GetProp(v, key) ==
  IF HasKey(v, key)
  THEN v.e[CHOOSE i \in 1..Len(v.e) : v.e[i].key = key].val
  ELSE Undefined

\* v[key] = val on an object: an existing key keeps its place.
SetProp(v, key, val) ==
  IF HasKey(v, key)
  THEN Obj([i \in 1..Len(v.e) |->
             IF v.e[i].key = key THEN Entry(key, val) ELSE v.e[i]])
  ELSE Obj(Append(v.e, Entry(key, val)))

\* delete v[key]
DeleteProp(v, key) ==
  IF v.k = "obj" THEN Obj(SelectSeq(v.e, LAMBDA en : en.key # key)) ELSE v

\* ------------------------------------------------------------------ text
RECURSIVE TrimLeft(_)
TrimLeft(s) ==
  IF s # <<>> /\ Head(s) = " " THEN TrimLeft(Tail(s)) ELSE s

RECURSIVE TrimRight(_)
TrimRight(s) ==
  IF s # <<>> /\ s[Len(s)] = " " THEN TrimRight(SubSeq(s, 1, Len(s) - 1)) ELSE s

\* String.prototype.trim
Trim(s) == TrimRight(TrimLeft(s))

LowerTok(t) ==
  CASE t \in {"Movie", "MOVIE"} -> "movie"
    [] t \in {"Tv", "TV"} -> "tv"
    [] t \in {"None", "NONE"} -> "none"
    [] t = "Action" -> "action"
    [] t = "Comedy" -> "comedy"
    [] t = "Horror" -> "horror"
    [] t = "Drama" -> "drama"
    [] OTHER -> t

\* String.prototype.toLowerCase
ToLowerCase(s) == [i \in 1..Len(s) |-> LowerTok(s[i])]

\* String.prototype.split(sep): always at least one piece.
RECURSIVE Split(_, _)
Split(s, sep) ==
  IF \E i \in 1..Len(s) : s[i] = sep
  THEN LET i == CHOOSE j \in 1..Len(s) :
                  s[j] = sep /\ \A m \in 1..(j - 1) : s[m] # sep
       IN  <<SubSeq(s, 1, i - 1)>> \o Split(SubSeq(s, i + 1, Len(s)), sep)
  ELSE <<s>>

\* Array.prototype.join(sep) over values, each coerced with String().
RECURSIVE Join(_, _)
Join(vals, sep) ==
  IF vals = <<>> THEN <<>>
  ELSE IF Len(vals) = 1 THEN ToStr(vals[1])
  ELSE ToStr(vals[1]) \o <<sep>> \o Join(Tail(vals), sep)

EncodeTok(t) ==
  CASE t = "&" -> "%26"
    [] t = "=" -> "%3D"
    [] t = "," -> "%2C"
    [] t = "|" -> "%7C"
    [] t = " " -> "%20"
    [] t = "?" -> "%3F"
    [] OTHER -> t

\* encodeURIComponent(String(v))
EncodeURIComponent(v) == LET s == ToStr(v) IN [i \in 1..Len(s) |-> EncodeTok(s[i])]

\* [...new Set(vals)]: first occurrences, compared by SameValueZero (the
\* text "12" and the number 12 are different values).
RECURSIVE Unique(_)
Unique(vals) ==
  IF vals = <<>> THEN <<>>
  ELSE LET rest == Unique(SubSeq(vals, 1, Len(vals) - 1))
           last == vals[Len(vals)]
       IN  IF \E i \in 1..Len(rest) : rest[i] = last THEN rest ELSE Append(rest, last)


\* ------------------------------------------------- fetchFromTMDB: the URL
TMDB_API_KEY == "KEY"

\* The allow-list: internal field name -> remote parameter name.
mappings ==
  [query |-> "query",
   with_genres |-> "with_genres",
   with_cast |-> "with_cast",
   with_crew |-> "with_crew",
   primary_release_date_gte |-> "primary_release_date.gte",
   primary_release_date_lte |-> "primary_release_date.lte",
   first_air_date_gte |-> "first_air_date.gte",
   first_air_date_lte |-> "first_air_date.lte",
   vote_average_gte |-> "vote_average.gte",
   vote_average_lte |-> "vote_average.lte",
   vote_count_gte |-> "vote_count.gte",
   sort_by |-> "sort_by",
   with_original_language |-> "with_original_language",
   year |-> "year",
   with_keywords |-> "with_keywords",
   with_runtime_gte |-> "with_runtime.gte",
   with_runtime_lte |-> "with_runtime.lte"]

\* What every object literal inherits from Object.prototype.
ObjectPrototype ==
  [constructor |-> Fn(<<"function Object() { [native code] }">>),
   toString |-> Fn(<<"function toString() { [native code] }">>),
   valueOf |-> Fn(<<"function valueOf() { [native code] }">>),
   hasOwnProperty |-> Fn(<<"function hasOwnProperty() { [native code] }">>),
   __proto__ |-> Obj(<<>>)]

\* mappings[key]: an own property, else one inherited, else undefined.
MappingsLookup(key) ==
  IF key \in DOMAIN mappings THEN Str(<<mappings[key]>>)
  ELSE IF key \in DOMAIN ObjectPrototype THEN ObjectPrototype[key]
  ELSE Undefined

\* const endpoint = requestType === "movie" ? "discover/movie" : "discover/tv"
Endpoint(requestType) ==
  IF requestType = "movie" THEN "discover/movie" ELSE "discover/tv"

\* const languageParam = queryParams.language || "en-US"
LanguageParam(q) ==
  IF Truthy(GetProp(q, "language")) THEN GetProp(q, "language") ELSE Str(<<"en-US">>)

\* for (const key in queryParams) if (mappings[key] && queryParams[key]) ...
RECURSIVE AppendParams(_, _)
AppendParams(q, keys) ==
  IF keys = <<>> THEN <<>>
  ELSE LET key == Head(keys)
           this == IF Truthy(MappingsLookup(key)) /\ Truthy(GetProp(q, key))
                   THEN <<"&">> \o ToStr(MappingsLookup(key)) \o <<"=">>
                        \o EncodeURIComponent(GetProp(q, key))
                   ELSE <<>>
       IN  this \o AppendParams(q, Tail(keys))

\* baseUrl as it is handed to axios.get
BuildUrl(q, languageParam, requestType) ==
  <<"https://api.themoviedb.org/3/", Endpoint(requestType), "?",
    "api_key", "=", TMDB_API_KEY>>
  \o <<"&", "language", "=">> \o ToStr(languageParam)
  \o AppendParams(q, OwnKeys(q))

\* What the catalog receives: the query part of the URL cut at "&", each
\* piece's name being the text before its first "=".
QueryPart(url) ==
  IF \E i \in 1..Len(url) : url[i] = "?"
  THEN SubSeq(url, 1 + (CHOOSE i \in 1..Len(url) :
                          url[i] = "?" /\ \A j \in 1..(i - 1) : url[j] # "?"),
              Len(url))
  ELSE <<>>

ParamNames(url) ==
  LET pieces == Split(QueryPart(url), "&")
  IN  [i \in 1..Len(pieces) |-> Split(pieces[i], "=")[1]]

\* ------------------------------------------------------- remote outcomes
\* A language-model call: it fails (transport or model error), or answers
\* with message content that is text or null.
LlmFail == [ok |-> FALSE, content |-> Undefined]
LlmSays(v) == [ok |-> TRUE, content |-> v]

\* ------------------------------------------------------- classifyRequest
\* classifyRequest comparing the content as it came, without
\* .trim().toLowerCase().
ClassifyResultRaw(o) ==
  IF ~o.ok \/ o.content.k # "str" THEN "none"
  ELSE IF o.content.s = <<"movie">> THEN "movie"
  ELSE IF o.content.s = <<"tv">> THEN "tv"
  ELSE "none"

\* The label classifyRequest returns for an outcome of its model call; a
\* failed call, or content that is no text (.trim throws), is caught.
ClassifyResult(o) ==
  IF ~o.ok \/ o.content.k # "str" THEN "none"
  ELSE LET classification == ToLowerCase(Trim(o.content.s))
       IN  IF classification = <<"movie">> THEN "movie"
           ELSE IF classification = <<"tv">> THEN "tv"
           ELSE "none"

\* What classifyRequest logs: its catch block runs on a failed call and on
\* content that is no text.
ClassifyErrors(o) ==
  IF ~o.ok \/ o.content.k # "str" THEN {"classifyRequest"} ELSE {}

\* ------------------------------------------------------ generateTMDBQuery
\* The model's answer to the synthesis call: text that JSON.parse accepts
\* after sanitizeAIResponse (parsed: its value) or rejects.
SynthText(parses, value) ==
  LlmSays([k |-> "str", n |-> 0, s |-> <<"raw">>, e |-> <<>>,
           parses |-> parses, value |-> value])

\* generateTMDBQuery returning null, not {}, from its catch blocks.
GenerateResultNullOnFailure(o) ==
  IF ~o.ok \/ o.content.k # "str" THEN Null
  ELSE IF ~o.content.parses THEN Null
  ELSE o.content.value

\* What generateTMDBQuery returns: {} on a failed call, on content that is
\* no text and on a parse error; else whatever JSON.parse returned.
GenerateResult(o) ==
  IF ~o.ok \/ o.content.k # "str" THEN Obj(<<>>)
  ELSE IF ~o.content.parses THEN Obj(<<>>)
  ELSE o.content.value

\* What generateTMDBQuery logs: the outer catch, or the parse error.
GenerateErrors(o) ==
  IF ~o.ok \/ o.content.k # "str" THEN {"generateTMDBQuery"}
  ELSE IF ~o.content.parses THEN {"JSON.parse"}
  ELSE {}

\* ------------------------------------------- fetchFromTMDB: name lookups
\* The whole text taken as one name, as .trim() without .split().
SplitNamesWhole(s, sep) == <<Trim(s)>>

\* x.split(",").map((n) => n.trim())
SplitNames(s, sep) ==
  LET parts == Split(s, sep) IN [i \in 1..Len(parts) |-> Trim(parts[i])]

\* One lookup's outcome: the call fails, or answers with no results, or
\* with results whose first has the given id.
LookupFail == [ok |-> FALSE, found |-> FALSE, id |-> 0]
LookupNone == [ok |-> TRUE, found |-> FALSE, id |-> 0]
LookupHit(i) == [ok |-> TRUE, found |-> TRUE, id |-> i]

\* What a lookup logs: the catch block around one name's call.
LookupErrors(o, fn) == IF o.ok THEN {} ELSE {fn}

\* A failed lookup ending the batch with nothing, as one try around the loop.
PushIdFailureEmpties(ids, o) ==
  IF ~o.ok THEN <<>>
  ELSE IF o.found THEN Append(ids, Num(o.id)) ELSE ids

\* ids after one name's lookup: results[0].id pushed when there is a result.
PushId(ids, o) == IF o.ok /\ o.found THEN Append(ids, Num(o.id)) ELSE ids

\* The position fetchFromTMDB stops at next: awaiting a lookup, awaiting the
\* discovery call, or thrown out of (a TypeError the function does not catch).
Threw(q) ==
  [pc |-> "threw", q |-> q, names |-> <<>>, url |-> <<>>]

ToDiscover(q, languageParam, requestType) ==
  [pc |-> "awaitDiscover", q |-> q, names |-> <<>>,
   url |-> BuildUrl(q, languageParam, requestType)]

\* 3b) if (queryParams.with_keywords_names) ...
ToKeywords(q, languageParam, requestType) ==
  LET v == GetProp(q, "with_keywords_names")
  IN  IF Truthy(v)
      THEN IF v.k # "str" THEN Threw(q)
           ELSE [pc |-> "awaitKeyword", q |-> q,
                 names |-> SplitNames(v.s, ","), url |-> <<>>]
      ELSE ToDiscover(q, languageParam, requestType)

\* 3a) if (queryParams.with_cast_names) ...
ToCast(q, languageParam, requestType) ==
  LET v == GetProp(q, "with_cast_names")
  IN  IF Truthy(v)
      THEN IF v.k # "str" THEN Threw(q)
           ELSE [pc |-> "awaitPerson", q |-> q,
                 names |-> SplitNames(v.s, ","), url |-> <<>>]
      ELSE ToKeywords(q, languageParam, requestType)

\* Entry of fetchFromTMDB: reading queryParams.language of null throws.
EnterFetch(q, requestType) ==
  IF q.k \in {"null", "undefined"} THEN Threw(q)
  ELSE ToCast(q, LanguageParam(q), requestType)

\* Resolved ids appended to the cast filter the query already carries.
CastDoneMerges(q, actorIds) ==
  DeleteProp(IF Len(actorIds) > 0
             THEN IF Truthy(GetProp(q, "with_cast")) /\ GetProp(q, "with_cast").k = "str"
                  THEN SetProp(q, "with_cast",
                               Str(GetProp(q, "with_cast").s \o <<",">> \o Join(actorIds, ",")))
                  ELSE SetProp(q, "with_cast", Str(Join(actorIds, ",")))
             ELSE q,
             "with_cast_names")

\* with_cast assigned whether or not a name resolved.
CastDoneAlwaysInstalls(q, actorIds) ==
  DeleteProp(SetProp(q, "with_cast", Str(Join(actorIds, ","))), "with_cast_names")

\* After the last person lookup: install with_cast, delete the names field.
CastDone(q, actorIds) ==
  DeleteProp(IF Len(actorIds) > 0
             THEN SetProp(q, "with_cast", Str(Join(actorIds, ",")))
             ELSE q,
             "with_cast_names")

\* Whether merging keyword ids throws: with_keywords is truthy but no text.
MergeThrows(q, keywordIds) ==
  /\ Len(keywordIds) > 0
  /\ Truthy(GetProp(q, "with_keywords"))
  /\ GetProp(q, "with_keywords").k # "str"

\* Existing with_keywords pieces (texts) followed by the resolved ids
\* (numbers), deduplicated by Set and joined with "|".
MergeKeywords(existing, keywordIds) ==
  LET parts == SplitNames(existing, "|")
      texts == [i \in 1..Len(parts) |-> Str(parts[i])]
  IN  Join(Unique(texts \o keywordIds), "|")

\* After the last keyword lookup (when the merge does not throw).
KeywordsDone(q, keywordIds) ==
  DeleteProp(IF Len(keywordIds) > 0
             THEN IF Truthy(GetProp(q, "with_keywords"))
                  THEN SetProp(q, "with_keywords",
                               Str(MergeKeywords(GetProp(q, "with_keywords").s, keywordIds)))
                  ELSE SetProp(q, "with_keywords", Str(Join(keywordIds, "|")))
             ELSE q,
             "with_keywords_names")

\* ------------------------------------------- fetchFromTMDB: the results
\* The discovery call's outcome: it fails, or its body has no results, or
\* results that are no array, or an array of items.
Item(i) == [id |-> i, media_type |-> "absent"]
DiscFail == [ok |-> FALSE, shape |-> "none", items |-> <<>>]
DiscNoResults == [ok |-> TRUE, shape |-> "none", items |-> <<>>]
DiscNotArray == [ok |-> TRUE, shape |-> "other", items |-> <<>>]
DiscItems(n) == [ok |-> TRUE, shape |-> "array", items |-> [i \in 1..n |-> Item(i)]]

\* An array whose first item comes with a media_type of its own.
DiscKinded ==
  [ok |-> TRUE, shape |-> "array",
   items |-> <<[id |-> 1, media_type |-> "person"], Item(2)>>]

MediaType(requestType) == IF requestType = "movie" THEN "movie" ELSE "tv"

\* The stamp written ahead of the spread, `{ media_type, ...result }`: an
\* item's own media_type wins.
FetchResultKeepsKind(o, requestType) ==
  IF ~o.ok \/ o.shape = "none" THEN [isArray |-> TRUE, items |-> <<>>]
  ELSE IF o.shape = "array"
  THEN [isArray |-> TRUE,
        items |-> [i \in 1..Len(o.items) |->
                     IF o.items[i].media_type = "absent"
                     THEN [o.items[i] EXCEPT !.media_type = MediaType(requestType)]
                     ELSE o.items[i]]]
  ELSE [isArray |-> FALSE, items |-> <<>>]

\* fetchFromTMDB without the `return []` of its catch block: a failed call
\* gives undefined, which is no array.
FetchResultNoDefault(o, requestType) ==
  IF ~o.ok THEN [isArray |-> FALSE, items |-> <<>>]
  ELSE IF o.shape = "none" THEN [isArray |-> TRUE, items |-> <<>>]
  ELSE IF o.shape = "array"
  THEN [isArray |-> TRUE,
        items |-> [i \in 1..Len(o.items) |->
                     [o.items[i] EXCEPT !.media_type = MediaType(requestType)]]]
  ELSE [isArray |-> FALSE, items |-> <<>>]

\* What fetchFromTMDB returns: [] when the call fails or the body has no
\* results, the stamped array, or the results as they are when no array.
FetchResult(o, requestType) ==
  IF ~o.ok \/ o.shape = "none" THEN [isArray |-> TRUE, items |-> <<>>]
  ELSE IF o.shape = "array"
  THEN [isArray |-> TRUE,
        items |-> [i \in 1..Len(o.items) |->
                     [o.items[i] EXCEPT !.media_type = MediaType(requestType)]]]
  ELSE [isArray |-> FALSE, items |-> <<>>]

\* What fetchFromTMDB logs: its catch block around the discovery call.
FetchErrors(o) == IF o.ok THEN {} ELSE {"fetchFromTMDB"}

\* ---------------------------------------------------- refineResultsWithAI
\* The empty-list sentence naming movies whatever the request type.
NoMatchesMoviesOnly(requestType) ==
  <<"I couldn't find any ", "movies",
    " matching your criteria. Please try a different request.">>

\* refineResultsWithAI on an empty list: no model call, this sentence.
NoMatches(requestType) ==
  <<"I couldn't find any ", IF requestType = "movie" THEN "movies" ELSE "TV shows",
    " matching your criteria. Please try a different request.">>
SummaryApology == <<"Sorry, I had trouble analyzing the results.">>
GeneralApology == <<"Sorry, I couldn't process your request at the moment.">>
TopN == 5

\* The last five, as tmdbResults.slice(-5).
TopResultsLast(items) ==
  SubSeq(items, IF Len(items) < 5 THEN 1 ELSE Len(items) - 4, Len(items))

\* tmdbResults.slice(0, 5)
TopResults(items) == SubSeq(items, 1, IF Len(items) < TopN THEN Len(items) ELSE TopN)

\* What a text-producing function logs: its catch block.
TextErrors(o, fn) == IF ~o.ok \/ o.content.k # "str" THEN {fn} ELSE {}

\* The catch block returning no text at all, not the apology.
TextOrNothing(o, apology) ==
  IF ~o.ok \/ o.content.k # "str" THEN <<>> ELSE Trim(o.content.s)

\* The text a model call's outcome becomes: content.trim(), or the caller's
\* apology when the call failed or the content is no text.
TextOr(o, apology) ==
  IF ~o.ok \/ o.content.k # "str" THEN apology ELSE Trim(o.content.s)

\* ------------------------------------------------------------ the state
VARIABLES
  movieGenreMap,  \* let movieGenreMap: lowercase genre name -> id
  tvGenreMap,     \* let tvGenreMap
  rpc,            \* where fetchGenresFromTMDB stands: idle or at an await
  refreshNo,      \* history: how many refreshes have started
  movieFrom,      \* history: the refresh that assigned movieGenreMap (0: none)
  tvFrom,         \* history: the refresh that assigned tvGenreMap
  genresAtStart,  \* history: both maps as the running refresh found them
  refreshFailed,  \* history: the last refresh ended in its catch block
  pc,             \* where the /api/respond handler stands
  messages,       \* req.body.messages
  userMessage,    \* messages[messages.length - 1].content
  requestType,    \* what classifyRequest returned
  queryParams,    \* the query object, mutated in place by fetchFromTMDB
  languageParam,  \* fetchFromTMDB's languageParam
  namesArr,       \* the names being resolved
  nameIdx,        \* the name whose lookup is awaited
  ids,            \* the resolver's ids so far
  baseUrl,        \* the discovery URL handed to axios.get
  tmdbResults,    \* what fetchFromTMDB returned
  response,       \* what the handler sent: status and body
  stages,         \* history: the pipeline functions called, and Respond
  remoteCalls,    \* history: the remote calls issued for this request
  classifyReply,  \* history: the outcome of the classification call
  replies,        \* history: the outcomes of the remote calls, in order
  errors,         \* history: the functions whose console.error has logged
  dirAtRead,      \* history: movieFrom, tvFrom and whether a refresh was
                  \* running when generateTMDBQuery read the genre map
  parked,         \* the locals of the other /api/respond invocation in flight
  running,        \* which of the two invocations the locals above are of
  titlePc,        \* where the /api/title handler stands
  titleReq,       \* req.params of the title request
  titleCalls,     \* history: the catalog calls issued for the title request
  titleReply,     \* history: the outcome of the title request's catalog call
  titleResponse,  \* what the title handler sent
  chatMessages,   \* ChatClient: the messages state (the transcript)
  userInput,      \* ChatClient: the userInput state
  isAssistantTyping, \* ChatClient: the isAssistantTyping state
  posts           \* ChatClient: the axios.post calls made: the history each
                  \* posted, and whether its handleSend still awaits it

genreVars ==
  <<movieGenreMap, tvGenreMap, rpc, refreshNo, movieFrom, tvFrom,
    genresAtStart, refreshFailed>>
fetchVars == <<queryParams, languageParam, namesArr, nameIdx, ids, baseUrl>>
reqVars ==
  <<pc, messages, userMessage, requestType, fetchVars, tmdbResults, response,
    stages, remoteCalls, classifyReply, replies, errors, dirAtRead>>
titleVars == <<titlePc, titleReq, titleCalls, titleReply, titleResponse>>
chatVars == <<chatMessages, userInput, isAssistantTyping, posts>>
vars == <<genreVars, reqVars, parked, running, titleVars, chatVars>>

\* ----------------------------------------------------- the genre refresh
\* The catalog's genre list of a taxonomy when refresh n asks for it: the
\* taxonomy grows over time, so every successful refresh changes the maps.
AllGenres(tax) ==
  IF tax = "movie"
  THEN <<[name |-> "Action", id |-> 28], [name |-> "Comedy", id |-> 35],
         [name |-> "Horror", id |-> 27], [name |-> "Drama", id |-> 18]>>
  ELSE <<[name |-> "Drama", id |-> 18], [name |-> "Comedy", id |-> 35],
         [name |-> "Action", id |-> 10759], [name |-> "Horror", id |-> 9648]>>

CatalogGenres(tax, n) ==
  SubSeq(AllGenres(tax), 1, IF n < Len(AllGenres(tax)) THEN n ELSE Len(AllGenres(tax)))

\* genres.reduce((map, genre) => { map[genre.name.toLowerCase()] = genre.id ... }, {})
GenreMapOf(genres) ==
  [nm \in {LowerTok(genres[i].name) : i \in 1..Len(genres)} |->
     genres[CHOOSE i \in 1..Len(genres) :
              /\ LowerTok(genres[i].name) = nm
              /\ \A j \in (i + 1)..Len(genres) : LowerTok(genres[j].name) # nm].id]

\* A genre fetch succeeds, fails in transport, or answers with a body that
\* has no genres array (reduce of undefined throws).
GenreOutcomes == {"ok", "network", "malformed"}

\* setInterval(fetchGenresFromTMDB, 24h): the next refresh starts.
TimerTick ==
  /\ rpc = "idle"
  /\ refreshNo < MaxRefresh
  /\ refreshNo' = refreshNo + 1
  /\ rpc' = "awaitMovieGenres"
  /\ genresAtStart' = <<movieGenreMap, tvGenreMap>>
  /\ refreshFailed' = FALSE
  /\ UNCHANGED <<movieGenreMap, tvGenreMap, movieFrom, tvFrom, reqVars, parked, running, titleVars, chatVars>>

\* The movie genre fetch returns: movieGenreMap is assigned at once, and the
\* TV fetch is issued; a failure ends the refresh in the catch block.
MovieGenresReturn ==
  /\ rpc = "awaitMovieGenres"
  /\ \E o \in GenreOutcomes :
       IF o = "ok"
       THEN /\ movieGenreMap' = GenreMapOf(CatalogGenres("movie", refreshNo))
            /\ movieFrom' = refreshNo
            /\ rpc' = "awaitTvGenres"
            /\ UNCHANGED refreshFailed
       ELSE /\ rpc' = "idle"
            /\ refreshFailed' = TRUE
            /\ UNCHANGED <<movieGenreMap, movieFrom>>
  /\ UNCHANGED <<tvGenreMap, tvFrom, refreshNo, genresAtStart, reqVars, parked, running, titleVars, chatVars>>

\* The TV genre fetch returns.
TvGenresReturn ==
  /\ rpc = "awaitTvGenres"
  /\ \E o \in GenreOutcomes :
       IF o = "ok"
       THEN /\ tvGenreMap' = GenreMapOf(CatalogGenres("tv", refreshNo))
            /\ tvFrom' = refreshNo
            /\ UNCHANGED refreshFailed
       ELSE /\ refreshFailed' = TRUE
            /\ UNCHANGED <<tvGenreMap, tvFrom>>
  /\ rpc' = "idle"
  /\ UNCHANGED <<movieGenreMap, movieFrom, refreshNo, genresAtStart, reqVars, parked, running, titleVars, chatVars>>

\* ------------------------------------------------------ POST /api/respond
NoResponse == [status |-> 0, body |-> <<>>]
Respond400 == [status |-> 400, body |-> [error |-> "No messages provided"]]
Respond500 == [status |-> 500, body |-> [error |-> "Failed to complete the response."]]

\* res.json({ response, tmdbData, queryParams, requestType })
RecommendBody(text, results, q, rt) ==
  [response |-> text, tmdbData |-> results, queryParams |-> q, requestType |-> rt]

\* res.json({ response })
GeneralBody(text) == [response |-> text]

NoResults == [isArray |-> TRUE, items |-> <<>>]
NotRead == [movie |-> 0, tv |-> 0, refreshing |-> FALSE]

\* The content of the first message of the history.
LeadingContent(list) == list[1].content

\* const userMessage = messages[messages.length - 1].content
TrailingContent(list) == list[Len(list)].content

LlmCall(step, arg) == [svc |-> "llm", step |-> step, arg |-> arg]
TmdbCall(step, arg) == [svc |-> "tmdb", step |-> step, arg |-> arg]

\* The branch taken on any label at all, as `if (requestType)` would.
IsRecommendationAnyLabel(rt) == rt # ""

\* if (requestType === "movie" || requestType === "tv")
IsRecommendation(rt) == rt = "movie" \/ rt = "tv"

\* The test without its second half, as `if (!messages)`.
NoMessagesAbsentOnly(m) == ~m.present

\* if (!messages || !messages.length)
NoMessages(m) == ~m.present \/ Len(m.list) = 0

Reply(step, o) == [step |-> step, o |-> o]

\* A request arrives. Without messages it is answered 400; else the handler
\* takes the trailing message and calls classifyRequest. Reading the content
\* of the trailing message of a list that has none throws ahead of the try
\* block: the request is then never answered.
Receive(pool) ==
  /\ pc \in {"idle", "done", "unanswered"}
  /\ \E m \in pool :
       /\ messages' = m
       /\ IF NoMessages(m)
          THEN /\ pc' = "done"
               /\ userMessage' = <<>>
               /\ response' = Respond400
               /\ stages' = <<"Respond">>
               /\ remoteCalls' = <<>>
          ELSE IF m.list = <<>>
          THEN /\ pc' = "unanswered"
               /\ userMessage' = <<>>
               /\ response' = NoResponse
               /\ stages' = <<>>
               /\ remoteCalls' = <<>>
          ELSE /\ pc' = "awaitClassify"
               /\ userMessage' = TrailingContent(m.list)
               /\ response' = NoResponse
               /\ stages' = <<"Classify">>
               /\ remoteCalls' = <<LlmCall("classify", TrailingContent(m.list))>>
  /\ requestType' = "unset"
  /\ queryParams' = Undefined
  /\ languageParam' = Undefined
  /\ namesArr' = <<>>
  /\ nameIdx' = 0
  /\ ids' = <<>>
  /\ baseUrl' = <<>>
  /\ tmdbResults' = NoResults
  /\ classifyReply' = LlmFail
  /\ replies' = <<>>
  /\ errors' = {}
  /\ dirAtRead' = NotRead
  /\ UNCHANGED <<genreVars, parked, running, titleVars, chatVars>>

\* classifyRequest returns. A recommendation request goes on to
\* generateTMDBQuery, which reads the genre map of the request type and
\* issues the synthesis call; any other goes to generateNormalResponse.
ClassifyReturn(pool) ==
  /\ pc = "awaitClassify"
  /\ \E o \in pool :
       LET rt == ClassifyResult(o)
       IN  /\ requestType' = rt
           /\ classifyReply' = o
           /\ replies' = Append(replies, Reply("classify", o))
           /\ errors' = errors \cup ClassifyErrors(o)
           /\ IF IsRecommendation(rt)
              THEN /\ pc' = "awaitSynth"
                   /\ stages' = Append(stages, "Synthesize")
                   /\ dirAtRead' = [movie |-> movieFrom, tv |-> tvFrom,
                                     refreshing |-> rpc # "idle"]
                   /\ remoteCalls' =
                        Append(remoteCalls,
                               [svc |-> "llm", step |-> "synthesize", arg |-> userMessage,
                                genres |-> IF rt = "movie" THEN movieGenreMap
                                                           ELSE tvGenreMap])
              ELSE /\ pc' = "awaitGeneral"
                   /\ stages' = Append(stages, "GeneralRespond")
                   /\ remoteCalls' = Append(remoteCalls, LlmCall("general", messages.list))
                   /\ UNCHANGED dirAtRead
  /\ UNCHANGED <<genreVars, parked, running, titleVars, chatVars>>
  /\ UNCHANGED <<messages, userMessage, fetchVars, tmdbResults, response>>

\* The first remote call of the position fetchFromTMDB stops at.
FirstCall(step) ==
  IF step.pc = "awaitPerson" THEN TmdbCall("person", step.names[1])
  ELSE IF step.pc = "awaitKeyword" THEN TmdbCall("keyword", step.names[1])
  ELSE TmdbCall("discover", step.url)

\* A throw out of fetchFromTMDB that nothing catches: no response is sent.
AdvanceUncaught(position, st, errs) ==
  \E step \in {position} :
    /\ queryParams' = step.q
    /\ ids' = <<>>
    /\ namesArr' = step.names
    /\ baseUrl' = step.url
    /\ IF step.pc = "threw"
       THEN /\ pc' = "unanswered"
            /\ nameIdx' = 0
            /\ UNCHANGED <<response, stages, errors, remoteCalls>>
       ELSE /\ pc' = step.pc
            /\ stages' = st
            /\ errors' = errs
            /\ nameIdx' = IF step.names = <<>> THEN 0 ELSE 1
            /\ remoteCalls' = Append(remoteCalls, FirstCall(step))
            /\ UNCHANGED response

\* fetchFromTMDB runs on to its next await, or throws: the handler's catch
\* block then answers 500.
Advance(position, st, errs) ==
  \E step \in {position} :
    /\ queryParams' = step.q
    /\ ids' = <<>>
    /\ namesArr' = step.names
    /\ baseUrl' = step.url
    /\ IF step.pc = "threw"
       THEN /\ pc' = "done"
            /\ response' = Respond500
            /\ stages' = Append(st, "Respond")
            /\ errors' = errs \cup {"/api/respond"}
            /\ nameIdx' = 0
            /\ UNCHANGED remoteCalls
       ELSE /\ pc' = step.pc
            /\ stages' = st
            /\ errors' = errs
            /\ nameIdx' = IF step.names = <<>> THEN 0 ELSE 1
            /\ remoteCalls' = Append(remoteCalls, FirstCall(step))
            /\ UNCHANGED response

\* generateTMDBQuery returns and fetchFromTMDB is entered.
SynthReturn(pool) ==
  /\ pc = "awaitSynth"
  /\ \E o \in pool :
       \E q \in {GenerateResult(o)} :
           /\ languageParam' = IF q.k = "null" THEN Undefined ELSE LanguageParam(q)
           /\ replies' = Append(replies, Reply("synthesize", o))
           /\ Advance(EnterFetch(q, requestType), Append(stages, "Execute"),
                      errors \cup GenerateErrors(o))
  /\ UNCHANGED <<genreVars, parked, running, titleVars, chatVars>>
  /\ UNCHANGED <<messages, userMessage, requestType, tmdbResults,
                 classifyReply, dirAtRead>>

\* One person lookup of fetchActorIdsByNames returns.
PersonReturn(pool) ==
  /\ pc = "awaitPerson"
  /\ \E o \in pool :
       /\ replies' = Append(replies, Reply("person", o))
       /\ IF nameIdx < Len(namesArr)
          THEN /\ ids' = PushId(ids, o)
               /\ nameIdx' = nameIdx + 1
               /\ remoteCalls' = Append(remoteCalls, TmdbCall("person", namesArr[nameIdx + 1]))
               /\ errors' = errors \cup LookupErrors(o, "fetchActorIdsByNames")
               /\ UNCHANGED <<pc, queryParams, namesArr, baseUrl, response, stages>>
          ELSE \E q \in {CastDone(queryParams, PushId(ids, o))} :
                 Advance(ToKeywords(q, languageParam, requestType),
                         stages, errors \cup LookupErrors(o, "fetchActorIdsByNames"))
  /\ UNCHANGED <<genreVars, parked, running, titleVars, chatVars>>
  /\ UNCHANGED <<messages, userMessage, requestType, languageParam,
                 tmdbResults, classifyReply, dirAtRead>>

\* One keyword lookup of fetchKeywordIdsByNames returns.
KeywordReturn(pool) ==
  /\ pc = "awaitKeyword"
  /\ \E o \in pool :
       /\ replies' = Append(replies, Reply("keyword", o))
       /\ IF nameIdx < Len(namesArr)
          THEN /\ ids' = PushId(ids, o)
               /\ nameIdx' = nameIdx + 1
               /\ remoteCalls' = Append(remoteCalls, TmdbCall("keyword", namesArr[nameIdx + 1]))
               /\ errors' = errors \cup LookupErrors(o, "fetchKeywordIdsByNames")
               /\ UNCHANGED <<pc, queryParams, namesArr, baseUrl, response, stages>>
          ELSE IF MergeThrows(queryParams, PushId(ids, o))
          THEN Advance(Threw(queryParams), stages,
                       errors \cup LookupErrors(o, "fetchKeywordIdsByNames"))
          ELSE \E q \in {KeywordsDone(queryParams, PushId(ids, o))} :
                 Advance(ToDiscover(q, languageParam, requestType),
                         stages, errors \cup LookupErrors(o, "fetchKeywordIdsByNames"))
  /\ UNCHANGED <<genreVars, parked, running, titleVars, chatVars>>
  /\ UNCHANGED <<messages, userMessage, requestType, languageParam,
                 tmdbResults, classifyReply, dirAtRead>>

\* The discovery call returns; refineResultsWithAI answers at once for an
\* empty list (and with its apology when the results are no array, slice or
\* map throwing inside its try), else issues the summary call.
DiscoverReturn(pool) ==
  /\ pc = "awaitDiscover"
  /\ \E o \in pool :
       LET r == FetchResult(o, requestType)
       IN  /\ tmdbResults' = r
           /\ replies' = Append(replies, Reply("discover", o))
           /\ errors' = errors \cup FetchErrors(o)
                                \cup (IF r.isArray THEN {} ELSE {"refineResultsWithAI"})
           /\ IF r.isArray /\ Len(r.items) = 0
              THEN /\ pc' = "done"
                   /\ response' = [status |-> 200,
                                   body |-> RecommendBody(NoMatches(requestType), r,
                                                          queryParams, requestType)]
                   /\ stages' = stages \o <<"Summarize", "Respond">>
                   /\ UNCHANGED remoteCalls
              ELSE IF ~r.isArray
              THEN /\ pc' = "done"
                   /\ response' = [status |-> 200,
                                   body |-> RecommendBody(SummaryApology, r,
                                                          queryParams, requestType)]
                   /\ stages' = stages \o <<"Summarize", "Respond">>
                   /\ UNCHANGED remoteCalls
              ELSE /\ pc' = "awaitSummary"
                   /\ stages' = Append(stages, "Summarize")
                   /\ remoteCalls' =
                        Append(remoteCalls,
                               [svc |-> "llm", step |-> "summarize",
                                arg |-> TopResults(r.items), msg |-> userMessage])
                   /\ UNCHANGED response
  /\ UNCHANGED <<genreVars, parked, running, titleVars, chatVars>>
  /\ UNCHANGED <<messages, userMessage, requestType, fetchVars,
                 classifyReply, dirAtRead>>

\* The summary call returns and the handler answers.
SummaryReturn(pool) ==
  /\ pc = "awaitSummary"
  /\ \E o \in pool :
       /\ response' = [status |-> 200,
                       body |-> RecommendBody(TextOr(o, SummaryApology), tmdbResults,
                                              queryParams, requestType)]
       /\ errors' = errors \cup TextErrors(o, "refineResultsWithAI")
       /\ replies' = Append(replies, Reply("summarize", o))
  /\ pc' = "done"
  /\ stages' = Append(stages, "Respond")
  /\ UNCHANGED <<genreVars, parked, running, titleVars, chatVars>>
  /\ UNCHANGED <<messages, userMessage, requestType, fetchVars,
                 tmdbResults, remoteCalls, classifyReply, dirAtRead>>

\* generateNormalResponse's call returns and the handler answers.
GeneralReturn(pool) ==
  /\ pc = "awaitGeneral"
  /\ \E o \in pool :
       /\ response' = [status |-> 200, body |-> GeneralBody(TextOr(o, GeneralApology))]
       /\ errors' = errors \cup TextErrors(o, "generateNormalResponse")
       /\ replies' = Append(replies, Reply("general", o))
  /\ pc' = "done"
  /\ stages' = Append(stages, "Respond")
  /\ UNCHANGED <<genreVars, parked, running, titleVars, chatVars>>
  /\ UNCHANGED <<messages, userMessage, requestType, fetchVars,
                 tmdbResults, remoteCalls, classifyReply, dirAtRead>>

\* ------------------------------------------- two invocations in flight
\* The locals of an invocation that has not run.
NoInvocation ==
  [pc |-> "idle", messages |-> [present |-> FALSE, list |-> <<>>],
   userMessage |-> <<>>, requestType |-> "unset", queryParams |-> Undefined,
   languageParam |-> Undefined, namesArr |-> <<>>, nameIdx |-> 0, ids |-> <<>>,
   baseUrl |-> <<>>, tmdbResults |-> NoResults, response |-> NoResponse,
   stages |-> <<>>, remoteCalls |-> <<>>, classifyReply |-> LlmFail,
   replies |-> <<>>, errors |-> {}, dirAtRead |-> NotRead]

\* The locals but for the query, kept in one variable of the module that
\* the invocations share: the suspended one finds the other's query in it.
LocalsSharingQuery ==
  [pc |-> pc, messages |-> messages, userMessage |-> userMessage,
   requestType |-> requestType, queryParams |-> parked.queryParams,
   languageParam |-> languageParam, namesArr |-> namesArr, nameIdx |-> nameIdx,
   ids |-> ids, baseUrl |-> baseUrl, tmdbResults |-> tmdbResults,
   response |-> response, stages |-> stages, remoteCalls |-> remoteCalls,
   classifyReply |-> classifyReply, replies |-> replies, errors |-> errors,
   dirAtRead |-> dirAtRead]

\* The locals of the running /api/respond invocation. Node runs one handler
\* at a time and each invocation has its own locals; the invocation that
\* is suspended at an await keeps them in parked.
Locals ==
  [pc |-> pc, messages |-> messages, userMessage |-> userMessage,
   requestType |-> requestType, queryParams |-> queryParams,
   languageParam |-> languageParam, namesArr |-> namesArr, nameIdx |-> nameIdx,
   ids |-> ids, baseUrl |-> baseUrl, tmdbResults |-> tmdbResults,
   response |-> response, stages |-> stages, remoteCalls |-> remoteCalls,
   classifyReply |-> classifyReply, replies |-> replies, errors |-> errors,
   dirAtRead |-> dirAtRead]

\* The event loop turns to the other invocation: a second request arrives
\* while the first is in flight, or the reply the other one awaits comes.
Switch ==
  /\ pc # "idle" \/ parked.pc # "idle"
  /\ parked' = Locals
  /\ running' = 3 - running
  /\ pc' = parked.pc
  /\ messages' = parked.messages
  /\ userMessage' = parked.userMessage
  /\ requestType' = parked.requestType
  /\ queryParams' = parked.queryParams
  /\ languageParam' = parked.languageParam
  /\ namesArr' = parked.namesArr
  /\ nameIdx' = parked.nameIdx
  /\ ids' = parked.ids
  /\ baseUrl' = parked.baseUrl
  /\ tmdbResults' = parked.tmdbResults
  /\ response' = parked.response
  /\ stages' = parked.stages
  /\ remoteCalls' = parked.remoteCalls
  /\ classifyReply' = parked.classifyReply
  /\ replies' = parked.replies
  /\ errors' = parked.errors
  /\ dirAtRead' = parked.dirAtRead
  /\ UNCHANGED <<genreVars, titleVars, chatVars>>

\* The remote call the running invocation awaits never returns: no call is
\* given a timeout, so the invocation stays at its await.
CallHangs ==
  /\ pc \in {"awaitClassify", "awaitSynth", "awaitPerson", "awaitKeyword",
              "awaitDiscover", "awaitSummary", "awaitGeneral"}
  /\ pc' = "hung"
  /\ UNCHANGED <<genreVars, parked, running, titleVars, chatVars, messages, userMessage,
                 requestType, fetchVars, tmdbResults, response, stages, remoteCalls,
                 classifyReply, replies, errors, dirAtRead>>

\* ------------------------------------------- GET /api/title/:type/:id
TitleRequired == [status |-> 400, body |-> [error |-> "Type and ID are required."]]
TitleInvalid ==
  [status |-> 400, body |-> [error |-> "Invalid type. Must be 'movie' or 'tv'."]]
TitleFailed(type) ==
  [status |-> 500, body |-> [error |-> <<"Failed to fetch ", type, " details.">>]]

\* The detail URL handed to axios.get
TitleUrl(type, id) ==
  <<"https://api.themoviedb.org/3/", type, "/", id, "?", "api_key", "=", TMDB_API_KEY,
    "&", "append_to_response", "=", "credits">>

\* The detail call's outcome: data, or an error that carries the remote
\* response (its status and body), or an error that carries none.
TitleData(data) == [ok |-> TRUE, hasResponse |-> TRUE, status |-> 200, data |-> data]
TitleRemoteError(status, data) ==
  [ok |-> FALSE, hasResponse |-> TRUE, status |-> status, data |-> data]
TitleNoResponse == [ok |-> FALSE, hasResponse |-> FALSE, status |-> 0, data |-> Undefined]

\* The catch block answering 500 whatever the error carries.
TitleAnswerAlways500(o, type) ==
  IF o.ok THEN [status |-> 200, body |-> o.data] ELSE TitleFailed(type)

\* What the handler sends for an outcome of the detail call.
TitleAnswer(o, type) ==
  IF o.ok THEN [status |-> 200, body |-> o.data]
  ELSE IF o.hasResponse
  THEN [status |-> o.status, body |-> [error |-> GetProp(o.data, "status_message")]]
  ELSE TitleFailed(type)

\* A title request arrives: 400 for a missing parameter or a type that is
\* neither movie nor tv, else the detail call is issued.
TitleReceive(pool) ==
  /\ titlePc \in {"idle", "done"}
  /\ \E p \in pool :
       /\ titleReq' = p
       /\ IF p.id = "" \/ p.type = ""
          THEN /\ titlePc' = "done"
               /\ titleResponse' = TitleRequired
               /\ titleCalls' = <<>>
          ELSE IF p.type \notin {"movie", "tv"}
          THEN /\ titlePc' = "done"
               /\ titleResponse' = TitleInvalid
               /\ titleCalls' = <<>>
          ELSE /\ titlePc' = "awaitTitle"
               /\ titleResponse' = NoResponse
               /\ titleCalls' = <<TmdbCall("title", TitleUrl(p.type, p.id))>>
  /\ titleReply' = TitleNoResponse
  /\ UNCHANGED <<genreVars, reqVars, parked, running, chatVars>>

\* The detail call returns and the handler answers.
TitleReturn(pool) ==
  /\ titlePc = "awaitTitle"
  /\ \E o \in pool :
       /\ titleReply' = o
       /\ titleResponse' = TitleAnswer(o, titleReq.type)
  /\ titlePc' = "done"
  /\ UNCHANGED <<genreVars, reqVars, parked, running, chatVars, titleReq, titleCalls>>

\* ------------------------------------------------------------ the inputs
Msg(c) == [role |-> "user", content |-> c]
Contents == {<<"first">>, <<"second">>}

RECURSIVE MsgLists(_)
MsgLists(n) ==
  IF n = 0 THEN {<<>>}
  ELSE MsgLists(n - 1)
       \cup {Append(l, Msg(c)) : l \in {x \in MsgLists(n - 1) : Len(x) = n - 1},
                                 c \in Contents}

\* Request bodies: messages absent, or a list of up to n messages.
Bodies(n) ==
  {[present |-> FALSE, list |-> <<>>]}
  \cup {[present |-> TRUE, list |-> l] : l \in MsgLists(n)}

\* One request body with a single message.
OneBody == {[present |-> TRUE, list |-> <<Msg(<<"first">>)>>]}

ClassifyOutcomes ==
  {LlmFail, LlmSays(Null)}
  \cup {LlmSays(Str(s)) : s \in {<<"movie">>, <<"tv">>, <<"none">>, <<"MOVIE">>,
                                 <<" ", "tv">>, <<"film">>}}

TextOutcomes == {LlmFail, LlmSays(Null), LlmSays(Str(<<" ", "Some text", " ">>))}

SynthOutcomes(queries) ==
  {LlmFail, LlmSays(Null), SynthText(FALSE, Null)}
  \cup {SynthText(TRUE, q) : q \in queries}

LookupOutcomes == {LookupFail, LookupNone, LookupHit(12), LookupHit(99)}

DiscOutcomes ==
  {DiscFail, DiscNoResults, DiscNotArray, DiscKinded, DiscItems(TopN + 1)}
  \cup {DiscItems(n) : n \in 0..MaxItems}

\* Route parameters: Express matches the route on non-empty segments only.
TitleParams == [type : {"movie", "tv", "person"}, id : {"603", "1399"}]

\* Remote error bodies: the catalog's JSON error object, a JSON object that
\* has no status_message, and a gateway's text.
TitleOutcomes ==
  {TitleNoResponse, TitleData(Obj(<<Entry("id", Num(603))>>))}
  \cup {TitleRemoteError(st, d) :
          st \in {401, 404},
          d \in {Obj(<<Entry("status_message", Str(<<"Not found.">>))>>),
                 Obj(<<>>), Str(<<"Bad Gateway">>)}}

\* Parsed synthesis answers of every JSON kind, and objects that exercise
\* each branch of fetchFromTMDB.
CoreQueries ==
  {Null, Num(5), Str(<<"text">>), Arr, Obj(<<>>),
   Obj(<<Entry("with_genres", Str(<<"28", ",", "35">>)),
         Entry("language", Str(<<"fr-FR">>))>>),
   Obj(<<Entry("with_cast_names", Str(<<"tom", ",", " ", "leo">>))>>),
   Obj(<<Entry("with_keywords_names", Str(<<"tense">>)),
         Entry("with_keywords", Str(<<"12", "|", "34">>))>>),
   Obj(<<Entry("with_keywords_names", Str(<<"tense">>)),
         Entry("with_keywords", Num(12))>>),
   Obj(<<Entry("with_cast_names", Num(5))>>)}

\* Fields and values a fuzzed query object draws from: allow-listed fields,
\* the two name fields, the language, and keys outside the allow-list.
FuzzFields ==
  <<[key |-> "language",
     vals |-> {Str(<<"fr-FR">>), Str(<<"fr-FR", "&", "page", "=", "2">>), Str(<<>>)}],
    [key |-> "with_cast_names",
     vals |-> {Str(<<"tom", ",", " ", "leo">>), Str(<<>>), Num(5)}],
    [key |-> "with_keywords_names",
     vals |-> {Str(<<"tense", ",", "dark">>), Str(<<>>), Num(0)}],
    [key |-> "with_keywords", vals |-> {Str(<<"12", "|", "34">>), Num(12)}],
    [key |-> "with_cast", vals |-> {Str(<<"7">>)}],
    [key |-> "with_genres", vals |-> {Str(<<"28", ",", "35">>), Str(<<>>)}],
    [key |-> "vote_average_gte", vals |-> {Str(<<"7.0">>)}],
    [key |-> "api_key", vals |-> {Str(<<"other">>)}],
    [key |-> "constructor", vals |-> {Str(<<"x">>)}]>>

\* Entry lists over FuzzFields[i..] with at most b entries, keys in order.
RECURSIVE FuzzEntries(_, _)
FuzzEntries(i, b) ==
  IF i > Len(FuzzFields) \/ b = 0 THEN {<<>>}
  ELSE FuzzEntries(i + 1, b)
       \cup {<<Entry(FuzzFields[i].key, v)>> \o rest :
               v \in FuzzFields[i].vals, rest \in FuzzEntries(i + 1, b - 1)}

FuzzQueries == {Obj(es) : es \in FuzzEntries(1, MaxFields)}

\* ------------------------------------------------- the chat client
\* ChatClient.tsx. React renders after every event and before the next one,
\* so a handler reads the state as it stands; the continuation of handleSend
\* after its await keeps the newMessages it was started with and updates the
\* transcript through functional updates of the state at that time.
ChatMessage(role, content, recs) == [role |-> role, content |-> content, recs |-> recs]

\* const typingIndicator: Message = { role: "assistant", content: "..." }
typingIndicator == ChatMessage("assistant", <<"...">>, 0)

\* updated.pop() on a copy of the transcript: the last message removed, an
\* empty transcript left empty.
Pop(list) == IF list = <<>> THEN <<>> ELSE SubSeq(list, 1, Len(list) - 1)

\* The outcomes of axios.post: it throws (transport failure or a status
\* outside 2xx), or resolves with the body's response text and item count.
PostFail == [ok |-> FALSE, response |-> <<>>, items |-> 0]
PostOk(text, n) == [ok |-> TRUE, response |-> text, items |-> n]

\* The assistant message a settled post leaves: the response text, or the
\* first fallback when it is empty, with the items when there are any; the
\* second fallback when the post threw.
assistantMessage(o) ==
  IF o.ok
  THEN ChatMessage("assistant",
                   IF o.response # <<>> THEN o.response
                   ELSE <<"Sorry, something went wrong.">>,
                   o.items)
  ELSE ChatMessage("assistant", <<"Sorry, something went wrong. Please try again.">>, 0)

\* input onChange: setUserInput(e.target.value).
Type(texts) ==
  /\ \E v \in texts : userInput' = v
  /\ userInput' # userInput
  /\ UNCHANGED <<genreVars, reqVars, parked, running, titleVars,
                 chatMessages, isAssistantTyping, posts>>

\* handleSend up to its await: nothing for blank input; else the user
\* message and the typing indicator are appended, the input is cleared, the
\* typing flag is raised and newMessages is posted.
handleSend ==
  /\ Trim(userInput) # <<>>
  /\ Len(posts) < MaxSends
  /\ LET newMessages == Append(chatMessages, ChatMessage("user", userInput, 0))
     IN  /\ chatMessages' = Append(newMessages, typingIndicator)
         /\ posts' = Append(posts, [messages |-> newMessages, pending |-> TRUE])
  /\ userInput' = <<>>
  /\ isAssistantTyping' = TRUE
  /\ UNCHANGED <<genreVars, reqVars, parked, running, titleVars>>

\* The Send button, disabled while isAssistantTyping.
ClickSend ==
  /\ ~isAssistantTyping
  /\ handleSend

\* The input's onKeyDown: Enter calls handleSend, whatever the typing flag;
\* any other key is left to onChange.
onKeyDown(key) ==
  /\ key = "Enter"
  /\ handleSend

\* handleSend after its await: the last message of the transcript is
\* replaced by the assistant message and the typing flag is lowered.
PostSettles(pool) ==
  /\ \E i \in 1..Len(posts), o \in pool :
       /\ posts[i].pending
       /\ posts' = [posts EXCEPT ![i].pending = FALSE]
       /\ chatMessages' = Append(Pop(chatMessages), assistantMessage(o))
  /\ isAssistantTyping' = FALSE
  /\ UNCHANGED <<genreVars, reqVars, parked, running, titleVars, userInput>>

\* The Clear chat button, confirmed.
ClearChat ==
  /\ chatMessages' = <<>>
  /\ userInput' = <<>>
  /\ UNCHANGED <<genreVars, reqVars, parked, running, titleVars,
                 isAssistantTyping, posts>>

\* What the user types, and how a post settles.
ChatTexts == {<<>>, <<" ">>, <<"hello">>, <<"hello", " ", "again">>}
PostOutcomes ==
  {PostFail, PostOk(<<>>, 0), PostOk(<<"Some text">>, 0), PostOk(<<"Some text">>, 1)}

\* --------------------------------------------------------- specifications
\* After construction: both maps empty, the first refresh awaiting its
\* movie genre fetch, no request received yet.
Init ==
  /\ movieGenreMap = <<>>
  /\ tvGenreMap = <<>>
  /\ rpc = "awaitMovieGenres"
  /\ refreshNo = 1
  /\ movieFrom = 0
  /\ tvFrom = 0
  /\ genresAtStart = <<<<>>, <<>>>>
  /\ refreshFailed = FALSE
  /\ pc = "idle"
  /\ messages = [present |-> FALSE, list |-> <<>>]
  /\ userMessage = <<>>
  /\ requestType = "unset"
  /\ queryParams = Undefined
  /\ languageParam = Undefined
  /\ namesArr = <<>>
  /\ nameIdx = 0
  /\ ids = <<>>
  /\ baseUrl = <<>>
  /\ tmdbResults = NoResults
  /\ response = NoResponse
  /\ stages = <<>>
  /\ remoteCalls = <<>>
  /\ classifyReply = LlmFail
  /\ replies = <<>>
  /\ errors = {}
  /\ dirAtRead = NotRead
  /\ parked = NoInvocation
  /\ running = 1
  /\ titlePc = "idle"
  /\ titleReq = [type |-> "", id |-> ""]
  /\ titleCalls = <<>>
  /\ titleReply = TitleNoResponse
  /\ titleResponse = NoResponse
  /\ chatMessages = <<>>
  /\ userInput = <<>>
  /\ isAssistantTyping = FALSE
  /\ posts = <<>>

\* The server: the genre refresh interleaved with request handling.
Next ==
  \/ TimerTick
  \/ MovieGenresReturn
  \/ TvGenresReturn
  \/ Receive(Bodies(1))
  \/ ClassifyReturn(ClassifyOutcomes)
  \/ SynthReturn(SynthOutcomes(CoreQueries))
  \/ PersonReturn(LookupOutcomes)
  \/ KeywordReturn(LookupOutcomes)
  \/ DiscoverReturn(DiscOutcomes)
  \/ SummaryReturn(TextOutcomes)
  \/ GeneralReturn(TextOutcomes)

Spec == Init /\ [][Next]_vars

\* Request handling alone (the first refresh has not returned yet), on
\* every request body up to MaxMsgs messages.
NextRespond ==
  \/ Receive(Bodies(MaxMsgs))
  \/ ClassifyReturn(ClassifyOutcomes)
  \/ SynthReturn(SynthOutcomes(CoreQueries))
  \/ PersonReturn(LookupOutcomes)
  \/ KeywordReturn(LookupOutcomes)
  \/ DiscoverReturn(DiscOutcomes)
  \/ SummaryReturn(TextOutcomes)
  \/ GeneralReturn(TextOutcomes)

SpecRespond == Init /\ [][NextRespond]_vars

\* Request handling alone, on fuzzed query objects.
NextExec ==
  \/ Receive(OneBody)
  \/ ClassifyReturn(ClassifyOutcomes)
  \/ SynthReturn(SynthOutcomes(FuzzQueries))
  \/ PersonReturn(LookupOutcomes)
  \/ KeywordReturn(LookupOutcomes)
  \/ DiscoverReturn(DiscOutcomes)
  \/ SummaryReturn(TextOutcomes)
  \/ GeneralReturn(TextOutcomes)

SpecExec == Init /\ [][NextExec]_vars

\* The title endpoint beside the genre refresh.
NextTitle ==
  \/ TimerTick
  \/ MovieGenresReturn
  \/ TvGenresReturn
  \/ TitleReceive(TitleParams)
  \/ TitleReturn(TitleOutcomes)

SpecTitle == Init /\ [][NextTitle]_vars

\* The chat client alone.
NextChat ==
  \/ Type(ChatTexts)
  \/ ClickSend
  \/ onKeyDown("Enter")
  \/ PostSettles(PostOutcomes)
  \/ ClearChat

SpecChat == Init /\ [][NextChat]_vars

\* Two requests in flight at once, each remote call failing or answering,
\* in a process whose startup refresh has filled the genre directory.
PairClassify == {LlmSays(Str(<<"movie">>)), LlmSays(Str(<<"none">>))}
PairQueries ==
  {Null,
   Obj(<<Entry("with_cast_names", Str(<<"tom">>))>>),
   Obj(<<Entry("with_keywords_names", Str(<<"tense">>))>>)}
PairSynth == {SynthText(FALSE, Null)} \cup {SynthText(TRUE, q) : q \in PairQueries}
PairLookup == {LookupFail, LookupHit(12)}
PairDisc == {DiscFail, DiscItems(0), DiscItems(1)}
PairText == {LlmFail, LlmSays(Str(<<"Some text">>))}

InitPair ==
  /\ movieGenreMap = GenreMapOf(CatalogGenres("movie", 1))
  /\ tvGenreMap = GenreMapOf(CatalogGenres("tv", 1))
  /\ rpc = "idle"
  /\ refreshNo = 1
  /\ movieFrom = 1
  /\ tvFrom = 1
  /\ genresAtStart = <<<<>>, <<>>>>
  /\ refreshFailed = FALSE
  /\ pc = "idle"
  /\ messages = [present |-> FALSE, list |-> <<>>]
  /\ userMessage = <<>>
  /\ requestType = "unset"
  /\ queryParams = Undefined
  /\ languageParam = Undefined
  /\ namesArr = <<>>
  /\ nameIdx = 0
  /\ ids = <<>>
  /\ baseUrl = <<>>
  /\ tmdbResults = NoResults
  /\ response = NoResponse
  /\ stages = <<>>
  /\ remoteCalls = <<>>
  /\ classifyReply = LlmFail
  /\ replies = <<>>
  /\ errors = {}
  /\ dirAtRead = NotRead
  /\ parked = NoInvocation
  /\ running = 1
  /\ titlePc = "idle"
  /\ titleReq = [type |-> "", id |-> ""]
  /\ titleCalls = <<>>
  /\ titleReply = TitleNoResponse
  /\ titleResponse = NoResponse
  /\ chatMessages = <<>>
  /\ userInput = <<>>
  /\ isAssistantTyping = FALSE
  /\ posts = <<>>

NextPair ==
  \/ Switch
  \/ Receive(OneBody)
  \/ ClassifyReturn(PairClassify)
  \/ SynthReturn(PairSynth)
  \/ PersonReturn(PairLookup)
  \/ KeywordReturn(PairLookup)
  \/ DiscoverReturn(PairDisc)
  \/ SummaryReturn(PairText)
  \/ GeneralReturn(PairText)

SpecPair == InitPair /\ [][NextPair]_vars

\* Two requests beside the startup refresh, where a remote call may never
\* return. A call that does not hang returns or fails, and the event loop
\* then runs its continuation, whichever invocation it belongs to; every
\* genre fetch returns.
LiveQueries ==
  {Null,
   Obj(<<Entry("with_cast_names", Str(<<"tom">>)),
         Entry("with_keywords_names", Str(<<"tense">>))>>)}
LiveSynth == {SynthText(TRUE, q) : q \in LiveQueries}
LiveLookup == {LookupHit(12)}
LiveDisc == {DiscItems(1)}
LiveText == {LlmSays(Str(<<"Some text">>))}

NextLive ==
  \/ MovieGenresReturn
  \/ TvGenresReturn
  \/ Switch
  \/ CallHangs
  \/ Receive(OneBody)
  \/ ClassifyReturn(PairClassify)
  \/ SynthReturn(LiveSynth)
  \/ PersonReturn(LiveLookup)
  \/ KeywordReturn(LiveLookup)
  \/ DiscoverReturn(LiveDisc)
  \/ SummaryReturn(LiveText)
  \/ GeneralReturn(LiveText)

\* The continuation of the call an invocation awaits.
Returns ==
  \/ ClassifyReturn(PairClassify)
  \/ SynthReturn(LiveSynth)
  \/ PersonReturn(LiveLookup)
  \/ KeywordReturn(LiveLookup)
  \/ DiscoverReturn(LiveDisc)
  \/ SummaryReturn(LiveText)
  \/ GeneralReturn(LiveText)

Fairness ==
  /\ WF_vars(MovieGenresReturn \/ TvGenresReturn)
  /\ WF_vars(Switch)
  /\ \A r \in {1, 2} : SF_vars(running = r /\ Returns)

SpecLive == Init /\ [][NextLive]_vars /\ Fairness

\* ------------------------------------------------------------ properties
Answered == pc = "done"
HasMessages == messages.present /\ Len(messages.list) > 0
Steps(step) == SelectSeq(remoteCalls, LAMBDA c : c.step = step)
StageCount(name) == Len(SelectSeq(stages, LAMBDA s : s = name))

\* C1: every request with a non-empty message list is answered 200,
\* whatever the remote calls and the model return; no 500 is reachable.
C1_AlwaysSucceeds ==
  (Answered /\ HasMessages) => response.status = 200

\* C2: a request classified movie or tv runs Classify, Synthesize, Execute,
\* Summarize once each in that order, then sends one response carrying the
\* summary text, the executor's items, the echoed query and the intent.
C2_RecommendationPath ==
  (Answered /\ IsRecommendation(requestType)) =>
    /\ stages = <<"Classify", "Synthesize", "Execute", "Summarize", "Respond">>
    /\ response.status = 200
    /\ DOMAIN response.body = {"response", "tmdbData", "queryParams", "requestType"}
    /\ response.body.tmdbData = tmdbResults
    /\ response.body.queryParams = queryParams
    /\ response.body.requestType = requestType

\* C3: a request classified other never calls the Synthesizer, the Executor,
\* the Entity Resolver or the Summarizer; it makes exactly one
\* general-responder call and its response carries only the text.
C3_OtherBypassesPipeline ==
  requestType = "none" =>
    /\ pc \in {"awaitGeneral", "done"}
    /\ \A i \in 1..Len(stages) : stages[i] \in {"Classify", "GeneralRespond", "Respond"}
    /\ \A i \in 1..Len(remoteCalls) : remoteCalls[i].step \in {"classify", "general"}
    /\ Len(Steps("general")) = 1
    /\ StageCount("GeneralRespond") = 1
    /\ Answered => /\ response.status = 200
                   /\ DOMAIN response.body = {"response"}
                   /\ stages = <<"Classify", "GeneralRespond", "Respond">>

C3_Witness ==
  /\ Answered
  /\ requestType = "none"
  /\ response.status = 200
  /\ response.body.response = <<"Some text">>

\* The parameter names the discovery endpoint accepts from this server: the
\* credential, the response language and the allow-list's remote names.
AllowedParamNames ==
  {<<"api_key">>, <<"language">>} \cup {<<mappings[f]>> : f \in DOMAIN mappings}

DiscoveryIssued == baseUrl # <<>>

\* C4: every parameter of the discovery request is the credential, the
\* response language or the remote name of an allow-listed field, whatever
\* extra keys the query carries (stated for queries without a language
\* field, whose value is the subject of C5).
C4_OnlyAllowListedNames ==
  (DiscoveryIssued /\ ~HasKey(queryParams, "language")) =>
    \A i \in 1..Len(ParamNames(baseUrl)) : ParamNames(baseUrl)[i] \in AllowedParamNames

\* The remote names of the allow-listed fields a query holds with a truthy
\* value, in the query's key order.
RECURSIVE ListedNames(_, _)
ListedNames(q, keys) ==
  IF keys = <<>> THEN <<>>
  ELSE (IF Head(keys) \in DOMAIN mappings /\ Truthy(GetProp(q, Head(keys)))
        THEN <<<<mappings[Head(keys)]>>>> ELSE <<>>)
       \o ListedNames(q, Tail(keys))

OnlyKnownKeys(q) ==
  \A i \in 1..Len(OwnKeys(q)) :
    OwnKeys(q)[i] \in DOMAIN mappings \cup {"language", "with_cast_names", "with_keywords_names"}

\* C5: the parameter names of the discovery request are fixed by the
\* allow-listed fields present, whatever the field values are, the language
\* value included (stated for queries whose keys are all schema fields).
C5_NamesIndependentOfValues ==
  (DiscoveryIssued /\ OnlyKnownKeys(queryParams)) =>
    ParamNames(baseUrl)
      = <<<<"api_key">>, <<"language">>>> \o ListedNames(queryParams, OwnKeys(queryParams))

\* C6: once the discovery request is issued the query holds neither
\* name-based field, whatever value the field had, and so does the query
\* echoed in the response.
C6_NameFieldsNeverSurvive ==
  DiscoveryIssued =>
    /\ ~HasKey(queryParams, "with_cast_names")
    /\ ~HasKey(queryParams, "with_keywords_names")
    /\ (Answered /\ response.status = 200) =>
         /\ ~HasKey(response.body.queryParams, "with_cast_names")
         /\ ~HasKey(response.body.queryParams, "with_keywords_names")

\* C7: a refresh that failed left both genre maps as it found them (stated
\* for a refresh that found both maps populated by an earlier one).
C7_FailedRefreshChangesNothing ==
  (refreshFailed /\ genresAtStart[1] # <<>> /\ genresAtStart[2] # <<>>) =>
    <<movieGenreMap, tvGenreMap>> = genresAtStart

\* C8: a request that read the genre directory while a refresh was running
\* read maps that both came from the same refresh (stated for a directory
\* that an earlier refresh had populated).
C8_ReaderSeesOneSnapshot ==
  (IsRecommendation(requestType) /\ dirAtRead.refreshing /\ dirAtRead.tv > 0) =>
    dirAtRead.movie = dirAtRead.tv

\* C9: when the discovery call fails, fetchFromTMDB returns an empty list
\* after that single call, the Summarizer is reached and answers with the
\* no-matches sentence of the request's media kind, and the turn ends 200
\* with that text.
C9_DiscoveryFailureStillAnswers ==
  "fetchFromTMDB" \in errors =>
    /\ tmdbResults = [isArray |-> TRUE, items |-> <<>>]
    /\ Len(Steps("discover")) = 1
    /\ Len(Steps("summarize")) = 0
    /\ StageCount("Summarize") = 1
    /\ Answered
    /\ response.status = 200
    /\ response.body.tmdbData.items = <<>>
    /\ requestType = "movie" =>
         response.body.response =
           <<"I couldn't find any ", "movies",
             " matching your criteria. Please try a different request.">>
    /\ requestType = "tv" =>
         response.body.response =
           <<"I couldn't find any ", "TV shows",
             " matching your criteria. Please try a different request.">>

C9_Witness ==
  /\ "fetchFromTMDB" \in errors
  /\ requestType = "tv"
  /\ Answered
  /\ response.status = 200

Classified == requestType # "unset"

\* The model's answer is the label in some letter case, with nothing but
\* whitespace around it.
SaysLabel(o, lower, capital, upper) ==
  /\ o.ok
  /\ o.content.k = "str"
  /\ \E i \in 1..Len(o.content.s) :
       /\ o.content.s[i] \in {lower, capital, upper}
       /\ \A j \in 1..Len(o.content.s) : j # i => o.content.s[j] = " "

\* C10 as stated: movie or tv is returned only when the model's output is
\* exactly that label.
C10_OnlyExactLabel ==
  /\ requestType = "movie" => classifyReply = LlmSays(Str(<<"movie">>))
  /\ requestType = "tv" => classifyReply = LlmSays(Str(<<"tv">>))

\* C10 amended: movie or tv is returned exactly when the model's output,
\* trimmed of surrounding whitespace and lower-cased, is that label; every
\* other output and every failed call yields none, and the handler always
\* gets a label back.
C10_LabelUpToCaseAndSpace ==
  /\ Classified =>
       /\ requestType \in {"movie", "tv", "none"}
       /\ requestType = "movie" <=> SaysLabel(classifyReply, "movie", "Movie", "MOVIE")
       /\ requestType = "tv" <=> SaysLabel(classifyReply, "tv", "Tv", "TV")
       /\ (~classifyReply.ok \/ classifyReply.content.k # "str") => requestType = "none"
  /\ (pc \notin {"idle", "awaitClassify"} /\ response.status # 400) => Classified

C10_Witness ==
  /\ requestType = "movie"
  /\ classifyReply = LlmSays(Str(<<"MOVIE">>))

\* The outcomes of the remote calls of one step, in the order they came.
RepliesOf(step) == SelectSeq(replies, LAMBDA r : r.step = step)

\* The synthesis call failed, or its content was no text, or did not parse.
SynthUnusable(o) == ~o.ok \/ o.content.k # "str" \/ ~o.content.parses

\* C11: when the synthesis output does not parse, and when the synthesis
\* call fails, the synthesizer returns the empty query and the turn goes on
\* to execute it: the discovery request carries the credential and the
\* default response language and nothing else, and no 500 is sent.
C11_UnusableSynthesisGivesEmptyQuery ==
  (RepliesOf("synthesize") # <<>> /\ SynthUnusable(RepliesOf("synthesize")[1].o)) =>
    /\ queryParams = Obj(<<>>)
    /\ pc \in {"awaitDiscover", "awaitSummary", "done"}
    /\ response.status # 500
    /\ Steps("person") = <<>> /\ Steps("keyword") = <<>>
    /\ Len(Steps("discover")) = 1
    /\ Steps("discover")[1].arg = baseUrl
    /\ baseUrl = <<"https://api.themoviedb.org/3/",
                   IF requestType = "movie" THEN "discover/movie" ELSE "discover/tv",
                   "?", "api_key", "=", TMDB_API_KEY, "&", "language", "=", "en-US">>

C11_Witness ==
  /\ Answered
  /\ RepliesOf("synthesize") = <<Reply("synthesize", SynthText(FALSE, Null))>>
  /\ queryParams = Obj(<<>>)
  /\ response.status = 200
  /\ Len(response.body.tmdbData.items) > 0

\* C12: summarizing an empty item list makes no language-model call and
\* returns one fixed sentence per intent: the movies sentence for movie, the
\* TV shows sentence for tv.
C12_EmptyListFixedSentence ==
  ("Summarize" \in {stages[i] : i \in 1..Len(stages)}
     /\ tmdbResults.isArray /\ tmdbResults.items = <<>>) =>
    /\ Steps("summarize") = <<>>
    /\ RepliesOf("summarize") = <<>>
    /\ Answered
    /\ response.status = 200
    /\ requestType = "movie" =>
         response.body.response =
           <<"I couldn't find any ", "movies",
             " matching your criteria. Please try a different request.">>
    /\ requestType = "tv" =>
         response.body.response =
           <<"I couldn't find any ", "TV shows",
             " matching your criteria. Please try a different request.">>

C12_Witness ==
  /\ Answered
  /\ requestType = "tv"
  /\ RepliesOf("discover") = <<Reply("discover", DiscItems(0))>>
  /\ tmdbResults.items = <<>>
  /\ Steps("summarize") = <<>>
  /\ response.body.response[2] = "TV shows"

\* C13: a request whose message list is absent or empty is answered 400
\* ahead of classification: no language-model call and no catalog call is
\* made for it.
C13_NoMessagesRejected ==
  (pc # "idle" /\ (~messages.present \/ messages.list = <<>>)) =>
    /\ Answered
    /\ response.status = 400
    /\ remoteCalls = <<>>
    /\ replies = <<>>
    /\ stages = <<"Respond">>
    /\ requestType = "unset"

C13_Witness ==
  /\ Answered
  /\ messages = [present |-> TRUE, list |-> <<>>]
  /\ response = Respond400
  /\ remoteCalls = <<>>

\* The query as generateTMDBQuery got it from the synthesis call: the parsed
\* value, or the empty object when there was none.
SynthesizedQuery ==
  IF RepliesOf("synthesize") = <<>> \/ SynthUnusable(RepliesOf("synthesize")[1].o)
  THEN Obj(<<>>)
  ELSE RepliesOf("synthesize")[1].o.content.value

\* The names a comma-separated names field of the synthesized query lists,
\* each trimmed; none when the field is absent, empty or no text.
NamesOf(field) ==
  LET v == IF SynthesizedQuery.k = "obj" THEN GetProp(SynthesizedQuery, field)
           ELSE Undefined
  IN  IF v.k = "str" /\ v.s # <<>>
      THEN LET parts == Split(v.s, ",") IN [i \in 1..Len(parts) |-> Trim(parts[i])]
      ELSE <<>>

CallArgs(step) == [i \in 1..Len(Steps(step)) |-> Steps(step)[i].arg]

\* The lookups of one resolver run: one per name in order, each issued when
\* the one before has returned, and all of them once the resolver has ended.
OneLookupPerName(step, awaiting, names) ==
  /\ Len(CallArgs(step)) <= Len(names)
  /\ CallArgs(step) = SubSeq(names, 1, Len(CallArgs(step)))
  /\ Len(RepliesOf(step)) <= Len(CallArgs(step))
  /\ pc = awaiting => Len(CallArgs(step)) = Len(RepliesOf(step)) + 1
  /\ pc # awaiting => Len(CallArgs(step)) = Len(RepliesOf(step))
  /\ DiscoveryIssued => CallArgs(step) = names

\* C14: no remote call is retried, whether or not it fails: a turn makes at
\* most one classification call, one synthesis call, one discovery call and
\* one summary-or-general call, and one lookup per cast name and per keyword
\* name the resolver is handed.
C14_NoCallRetried ==
  /\ Len(Steps("classify")) <= 1
  /\ Len(Steps("synthesize")) <= 1
  /\ Len(Steps("discover")) <= 1
  /\ Len(Steps("summarize")) + Len(Steps("general")) <= 1
  /\ Len(remoteCalls) <= Len(replies) + 1
  /\ OneLookupPerName("person", "awaitPerson", NamesOf("with_cast_names"))
  /\ OneLookupPerName("keyword", "awaitKeyword", NamesOf("with_keywords_names"))

C14_Witness ==
  /\ Answered
  /\ CallArgs("person") = <<<<"tom">>, <<"leo">>>>
  /\ RepliesOf("person") = <<Reply("person", LookupFail), Reply("person", LookupFail)>>
  /\ Len(Steps("discover")) = 1
  /\ RepliesOf("discover") = <<Reply("discover", DiscFail)>>

\* The ids one resolver run got: the id of each lookup that had a result.
ResolvedIds(step) ==
  LET hits == SelectSeq(RepliesOf(step), LAMBDA r : r.o.ok /\ r.o.found)
  IN  [i \in 1..Len(hits) |-> hits[i].o.id]

\* The ids of a "|"-separated keyword filter, each trimmed.
FilterIds(v) ==
  IF v.k = "str" /\ v.s # <<>>
  THEN LET parts == Split(v.s, "|") IN [i \in 1..Len(parts) |-> Trim(parts[i])]
  ELSE <<>>

\* C17: once keyword names have resolved to ids, the keyword filter holds
\* every id it held before and every resolved id, and holds no id twice:
\* also when a resolved id equals a pre-existing one, when two names resolve
\* to one id, and when there was no filter before.
C17_MergeKeepsEachIdOnce ==
  (DiscoveryIssued /\ ResolvedIds("keyword") # <<>>
     /\ GetProp(SynthesizedQuery, "with_keywords").k \in {"str", "undefined"}) =>
    LET before == FilterIds(GetProp(SynthesizedQuery, "with_keywords"))
        merged == FilterIds(GetProp(queryParams, "with_keywords"))
        found == ResolvedIds("keyword")
    IN  /\ \A i \in 1..Len(before) : \E j \in 1..Len(merged) : merged[j] = before[i]
        /\ \A i \in 1..Len(found) :
             \E j \in 1..Len(merged) : merged[j] = <<ToString(found[i])>>
        /\ \A i, j \in 1..Len(merged) : i # j => merged[i] # merged[j]

\* Ids written as text, one after another with sep between them.
RECURSIVE IdText(_, _)
IdText(idSeq, sep) ==
  IF idSeq = <<>> THEN <<>>
  ELSE IF Len(idSeq) = 1 THEN <<ToString(idSeq[1])>>
  ELSE <<ToString(idSeq[1]), sep>> \o IdText(Tail(idSeq), sep)

CastResolved == pc \in {"awaitKeyword", "awaitDiscover", "awaitSummary", "done"}

\* C18: with a cast-names field in the synthesized query, the cast filter is
\* installed exactly when a name resolved: it then holds the resolved ids, one
\* per resolving name in order, and otherwise the query's cast filter is what
\* it was; names given as text are gone from the query either way.
C18_CastFilterIsResolvedIds ==
  (HasKey(SynthesizedQuery, "with_cast_names") /\ CastResolved) =>
    /\ IF ResolvedIds("person") # <<>>
       THEN GetProp(queryParams, "with_cast") = Str(IdText(ResolvedIds("person"), ","))
       ELSE GetProp(queryParams, "with_cast") = GetProp(SynthesizedQuery, "with_cast")
    /\ NamesOf("with_cast_names") # <<>> => ~HasKey(queryParams, "with_cast_names")

\* Two names of which the second alone resolves.
C18_Witness ==
  /\ DiscoveryIssued
  /\ NamesOf("with_cast_names") = <<<<"tom">>, <<"leo">>>>
  /\ RepliesOf("person") = <<Reply("person", LookupNone), Reply("person", LookupHit(99))>>
  /\ GetProp(queryParams, "with_cast") = Str(<<"99">>)
  /\ ~HasKey(queryParams, "with_cast_names")

\* One resolver run seen from outside: while it waits for a lookup it holds
\* the ids of the lookups that had a result so far, whatever failed, and has
\* asked for the next name; when it has ended, every name has been asked for.
ResolverIsolates(step, awaiting, names) ==
  /\ pc = awaiting =>
       /\ namesArr = names
       /\ nameIdx = Len(RepliesOf(step)) + 1
       /\ nameIdx <= Len(names)
       /\ ids = [i \in 1..Len(ResolvedIds(step)) |-> Num(ResolvedIds(step)[i])]
       /\ remoteCalls[Len(remoteCalls)] = TmdbCall(step, names[nameIdx])
       /\ response = NoResponse
  /\ (pc # awaiting /\ RepliesOf(step) # <<>>) =>
       /\ Len(RepliesOf(step)) = Len(names)
       /\ CallArgs(step) = names

\* C19: the resolver isolates per-name failures: a failed lookup raises
\* nothing and the lookups of the later names are still issued, and the
\* resolver's output is the first-result ids of the names that had a result.
C19_PerNameFailuresIsolated ==
  /\ ResolverIsolates("person", "awaitPerson", NamesOf("with_cast_names"))
  /\ ResolverIsolates("keyword", "awaitKeyword", NamesOf("with_keywords_names"))
  /\ (CastResolved /\ ResolvedIds("person") # <<>>) =>
       FilterIds(GetProp(queryParams, "with_cast")) =
         <<IdText(ResolvedIds("person"), ",")>>
  /\ (DiscoveryIssued /\ ResolvedIds("keyword") # <<>>
        /\ ~HasKey(SynthesizedQuery, "with_keywords")) =>
       GetProp(queryParams, "with_keywords") = Str(IdText(ResolvedIds("keyword"), "|"))

\* The first name's lookup fails and the second name still resolves.
C19_Witness ==
  /\ DiscoveryIssued
  /\ CallArgs("person") = <<<<"tom">>, <<"leo">>>>
  /\ RepliesOf("person") = <<Reply("person", LookupFail), Reply("person", LookupHit(12))>>
  /\ "fetchActorIdsByNames" \in errors
  /\ GetProp(queryParams, "with_cast") = Str(<<"12">>)

\* C20: what the synthesizer hands to the executor is always a mapping: a
\* synthesis answer that is valid JSON but no object (null, a number, a
\* string, an array) never reaches the executor as the query.
C20_QueryIsAlwaysAMapping ==
  "Execute" \in {stages[i] : i \in 1..Len(stages)} => queryParams.k = "obj"

RECURSIVE SoloIds(_)
SoloIds(rs) ==
  IF rs = <<>> THEN <<>>
  ELSE PushId(SoloIds(SubSeq(rs, 1, Len(rs) - 1)), rs[Len(rs)].o)

SoloKeywords(step, lang, rt, rs) ==
  IF step.pc = "awaitKeyword"
  THEN LET n == Len(step.names)
           keywordIds == SoloIds(SubSeq(rs, 1, n))
       IN  IF MergeThrows(step.q, keywordIds)
           THEN [step |-> Threw(step.q), rest |-> <<>>]
           ELSE [step |-> ToDiscover(KeywordsDone(step.q, keywordIds), lang, rt),
                 rest |-> SubSeq(rs, n + 1, Len(rs))]
  ELSE [step |-> step, rest |-> rs]

SoloFetch(step, lang, rt, rs) ==
  IF step.pc = "awaitPerson"
  THEN LET n == Len(step.names)
           actorIds == SoloIds(SubSeq(rs, 1, n))
       IN  SoloKeywords(ToKeywords(CastDone(step.q, actorIds), lang, rt), lang, rt,
                        SubSeq(rs, n + 1, Len(rs)))
  ELSE SoloKeywords(step, lang, rt, rs)

SoloRecommend(rt, rs) ==
  LET q == GenerateResult(rs[1].o)
      lang == IF q.k = "null" THEN Undefined ELSE LanguageParam(q)
      end == SoloFetch(EnterFetch(q, rt), lang, rt, Tail(rs))
  IN  IF end.step.pc = "threw" THEN Respond500
      ELSE LET r == FetchResult(end.rest[1].o, rt)
               text == IF r.isArray /\ r.items = <<>> THEN NoMatches(rt)
                       ELSE IF ~r.isArray THEN SummaryApology
                       ELSE TextOr(end.rest[2].o, SummaryApology)
           IN  [status |-> 200, body |-> RecommendBody(text, r, end.step.q, rt)]

SoloResponse(m, rs) ==
  IF NoMessages(m) THEN Respond400
  ELSE LET rt == ClassifyResult(rs[1].o)
       IN  IF IsRecommendation(rt) THEN SoloRecommend(rt, Tail(rs))
           ELSE [status |-> 200, body |-> GeneralBody(TextOr(rs[2].o, GeneralApology))]

\* C15: request handling keeps no state across requests. No step of a
\* request changes the genre directory or anything else of the process that
\* outlives the request, and of two requests in flight at once each is
\* answered what it would be answered alone with the same remote outcomes.
C15_RequestsDoNotInterfere ==
  [][/\ UNCHANGED <<genreVars, titleVars>>
     /\ pc' = "done" => response' = SoloResponse(messages', replies')
     /\ parked'.pc = "done" =>
          parked'.response = SoloResponse(parked'.messages, parked'.replies)]_vars

\* One request is answered from the catalog's items while the other, sent
\* meanwhile, is still in flight.
C15_Witness ==
  /\ Answered
  /\ response.status = 200
  /\ requestType = "movie"
  /\ Len(response.body.tmdbData.items) = 1
  /\ GetProp(response.body.queryParams, "with_cast") = Str(<<"12">>)
  /\ parked.pc = "awaitDiscover"
  /\ GetProp(parked.queryParams, "with_keywords") = Str(<<"12">>)
  /\ movieGenreMap # <<>>

\* C21: every item the executor returns carries the media kind of the
\* request's intent, whatever the catalog answered and whatever kind an
\* item came with; the items are the catalog's, one for one and in order.
C21_EveryItemStamped ==
  /\ \A i \in 1..Len(tmdbResults.items) :
       /\ requestType \in {"movie", "tv"}
       /\ tmdbResults.items[i].media_type = requestType
  /\ (RepliesOf("discover") # <<>> /\ RepliesOf("discover")[1].o.ok
        /\ RepliesOf("discover")[1].o.shape = "array") =>
       LET sent == RepliesOf("discover")[1].o.items
       IN  /\ tmdbResults.isArray
           /\ Len(tmdbResults.items) = Len(sent)
           /\ \A i \in 1..Len(sent) : tmdbResults.items[i].id = sent[i].id
  /\ (Answered /\ response.status = 200 /\ IsRecommendation(requestType)) =>
       \A i \in 1..Len(response.body.tmdbData.items) :
         response.body.tmdbData.items[i].media_type = requestType

C21_Witness ==
  /\ Answered
  /\ requestType = "tv"
  /\ RepliesOf("discover") = <<Reply("discover", DiscKinded)>>
  /\ response.body.tmdbData.items =
       <<[id |-> 1, media_type |-> "tv"], [id |-> 2, media_type |-> "tv"]>>

\* The parameters the catalog receives: the pieces of the query part, the
\* name of a piece, and its value as the catalog decodes it.
Pieces(url) == Split(QueryPart(url), "&")
PieceName(piece) == IF piece = <<>> THEN "" ELSE piece[1]
DecodeTok(t) ==
  CASE t = "%26" -> "&"
    [] t = "%3D" -> "="
    [] t = "%2C" -> ","
    [] t = "%7C" -> "|"
    [] t = "%20" -> " "
    [] t = "%3F" -> "?"
    [] OTHER -> t
PieceValue(piece) ==
  IF Len(piece) < 3 THEN <<>>
  ELSE [i \in 1..(Len(piece) - 2) |-> DecodeTok(piece[i + 2])]
Named(url, name) == {i \in 1..Len(Pieces(url)) : PieceName(Pieces(url)[i]) = name}

\* C22: an allow-listed field is sent exactly when its value in the query
\* is truthy, and the response language is sent exactly once: with the
\* query's value when that is truthy, else with en-US.
C22_FieldsSentIffTruthy ==
  DiscoveryIssued =>
    /\ \A f \in DOMAIN mappings :
         Named(baseUrl, mappings[f]) # {} <=> Truthy(GetProp(queryParams, f))
    /\ Cardinality(Named(baseUrl, "language")) = 1
    /\ \A i \in Named(baseUrl, "language") :
         PieceValue(Pieces(baseUrl)[i]) =
           IF Truthy(GetProp(queryParams, "language"))
           THEN ToStr(GetProp(queryParams, "language"))
           ELSE <<"en-US">>

\* C23: for a non-empty item list the summarizer's context is the first
\* five items, or all of them when there are fewer, in the executor's order;
\* the response carries the executor's whole list in that order.
C23_ContextIsFirstFive ==
  /\ Steps("summarize") # <<>> =>
       LET items == tmdbResults.items
           shown == IF Len(items) < 5 THEN Len(items) ELSE 5
       IN  /\ Len(items) > 0
           /\ Len(Steps("summarize")) = 1
           /\ Steps("summarize")[1].arg = [i \in 1..shown |-> items[i]]
           /\ \A i \in 1..Len(items) :
                items[i].id = RepliesOf("discover")[1].o.items[i].id
  /\ (Answered /\ Steps("summarize") # <<>>) =>
       /\ response.status = 200
       /\ response.body.tmdbData = tmdbResults
       /\ Len(response.body.tmdbData.items) = Len(RepliesOf("discover")[1].o.items)

C23_Witness ==
  /\ Answered
  /\ response.status = 200
  /\ IsRecommendation(requestType)
  /\ Steps("summarize") # <<>>
  /\ Len(response.body.tmdbData.items) = 6
  /\ response.body.tmdbData.items[6].id = 6
  /\ Len(Steps("summarize")[1].arg) = 5
  /\ Steps("summarize")[1].arg[5].id = 5

\* A text-producing model call failed, or answered with content that is no
\* text.
TextFailed(o) == ~o.ok \/ o.content.k # "str"

\* C24: when the summarizer's model call fails the turn is answered 200 with
\* the summarizer's apology as its text and still carries the retrieved
\* items, the query and the intent; when the general responder's call fails
\* the turn is answered 200 with the general responder's apology.
C24_FailedTextCallApologises ==
  /\ (Answered /\ RepliesOf("summarize") # <<>>
        /\ TextFailed(RepliesOf("summarize")[1].o)) =>
       /\ response.status = 200
       /\ response.body.response = <<"Sorry, I had trouble analyzing the results.">>
       /\ DOMAIN response.body = {"response", "tmdbData", "queryParams", "requestType"}
       /\ response.body.tmdbData = tmdbResults
       /\ Len(response.body.tmdbData.items) > 0
       /\ response.body.queryParams = queryParams
       /\ response.body.requestType = requestType
  /\ (Answered /\ RepliesOf("general") # <<>>
        /\ TextFailed(RepliesOf("general")[1].o)) =>
       /\ response.status = 200
       /\ response.body =
            [response |-> <<"Sorry, I couldn't process your request at the moment.">>]

C24_Witness ==
  /\ Answered
  /\ RepliesOf("summarize") = <<Reply("summarize", LlmFail)>>
  /\ response.status = 200
  /\ response.body.response = SummaryApology
  /\ Len(response.body.tmdbData.items) = 2

\* A step of request handling: the handler moves, or issues or gets the
\* answer of a remote call.
RequestStep == pc' # pc \/ remoteCalls' # remoteCalls \/ replies' # replies

\* C25: the genre directory is fetched by the refresh alone. No step of a
\* request starts a genre fetch, ends one or changes the directory; a
\* request's next step never waits for a running refresh; and a synthesis
\* issued while the first refresh has not completed is given an empty
\* directory.
C25_OnlyRefreshFetchesGenres ==
  [][/\ RequestStep => UNCHANGED <<rpc, refreshNo, movieGenreMap, tvGenreMap>>
     /\ pc = "awaitClassify" => ENABLED ClassifyReturn(ClassifyOutcomes)
     /\ (pc = "awaitClassify" /\ pc' = "awaitSynth" /\ refreshNo = 1 /\ rpc # "idle") =>
          remoteCalls'[Len(remoteCalls')].genres = <<>>]_vars

\* The locals of invocation r, running or parked.
Inv(r) == IF running = r THEN Locals ELSE parked

Awaiting ==
  {"awaitClassify", "awaitSynth", "awaitPerson", "awaitKeyword", "awaitDiscover",
   "awaitSummary", "awaitGeneral"}

\* C26: a request whose remote calls all return or fail is eventually
\* answered, and answered once: the response is sent when the handler ends
\* and is not sent again. A call that never returns holds up its own request
\* only: the other request is still answered and the genre refresh still
\* completes.
C26_EveryRequestAnsweredOnce ==
  /\ \A r \in {1, 2} : (Inv(r).pc \in Awaiting) ~> (Inv(r).pc \in {"done", "hung"})
  /\ \A r \in {1, 2} :
       (Inv(r).pc = "hung" /\ Inv(3 - r).pc \in Awaiting)
         ~> (Inv(3 - r).pc \in {"done", "hung"})
  /\ (rpc # "idle") ~> (rpc = "idle")
  /\ [](\A r \in {1, 2} : Inv(r).pc = "done" <=> Inv(r).response.status # 0)
  /\ [][\A r \in {1, 2} :
          (Inv(r).response.status # 0 /\ Inv(r)'.response # Inv(r).response)
            => (Inv(r)'.replies = <<>> /\ Inv(r)'.stages # Inv(r).stages)]_vars
\* One invocation's call never returned while the other invocation was
\* answered from its remote calls and the startup refresh has completed.
C26_Witness ==
  \E r \in {1, 2} :
    /\ Inv(r).pc = "hung"
    /\ Inv(3 - r).pc = "done"
    /\ Inv(3 - r).response.status = 200
    /\ Len(Inv(3 - r).replies) > 1
    /\ rpc = "idle"

\* C27: the classifier's and the synthesizer's calls (and the summarizer's)
\* carry the content of the trailing message of the supplied history and
\* nothing else of it; the general responder's call carries the whole
\* supplied history; the recommendation path issues no such call and its
\* response is a function of the intent and of the remote calls'
\* outcomes after classification, so no earlier message influences it.
C27_OnlyTrailingMessageIsRead ==
  HasMessages =>
    /\ userMessage = messages.list[Len(messages.list)].content
    /\ \A i \in 1..Len(remoteCalls) :
         LET c == remoteCalls[i]
         IN  /\ c.step \in {"classify", "synthesize"} => c.arg = userMessage
             /\ c.step = "summarize" => c.msg = userMessage
             /\ c.step = "general" => c.arg = messages.list
    /\ IsRecommendation(requestType) => Steps("general") = <<>>
    /\ (Answered /\ IsRecommendation(requestType)) =>
         response = SoloRecommend(requestType, Tail(replies))

\* A two-message history whose messages differ was answered on the
\* recommendation path after a summary call.
C27_Witness ==
  /\ Answered
  /\ HasMessages
  /\ Len(messages.list) = 2
  /\ messages.list[1].content # messages.list[2].content
  /\ IsRecommendation(requestType)
  /\ Steps("summarize") # <<>>

\* The decoded values the discovery request sends under a parameter name.
Sent(name) == {PieceValue(Pieces(baseUrl)[i]) : i \in Named(baseUrl, name)}

\* C28: when the synthesized query carries cast names and an id-based cast
\* filter, the discovery request sends one cast filter: the resolved ids alone
\* when at least one name resolved, and the filter the query carried when
\* none did. Keyword resolution differs: the keyword filter sent holds the
\* ids the query carried as well as the resolved ones.
C28_CastOverwritesKeywordsMerge ==
  /\ (DiscoveryIssued /\ NamesOf("with_cast_names") # <<>>
        /\ Truthy(GetProp(SynthesizedQuery, "with_cast"))) =>
       /\ Cardinality(Named(baseUrl, "with_cast")) = 1
       /\ Sent("with_cast") =
            IF ResolvedIds("person") # <<>>
            THEN {IdText(ResolvedIds("person"), ",")}
            ELSE {ToStr(GetProp(SynthesizedQuery, "with_cast"))}
  /\ (DiscoveryIssued /\ NamesOf("with_keywords_names") # <<>>
        /\ ResolvedIds("keyword") # <<>>
        /\ FilterIds(GetProp(SynthesizedQuery, "with_keywords")) # <<>>) =>
       \A v \in Sent("with_keywords") :
         LET held == FilterIds(GetProp(SynthesizedQuery, "with_keywords"))
             got == ResolvedIds("keyword")
             now == FilterIds(Str(v))
         IN  /\ \A i \in 1..Len(held) : \E j \in 1..Len(now) : now[j] = held[i]
             /\ \A i \in 1..Len(got) : \E j \in 1..Len(now) : now[j] = <<ToString(got[i])>>
             /\ Cardinality(Named(baseUrl, "with_keywords")) = 1

\* A query with the cast filter "7" and cast names of which one resolved:
\* the discovery request carries the resolved id and not "7".
C28_Witness ==
  /\ DiscoveryIssued
  /\ GetProp(SynthesizedQuery, "with_cast") = Str(<<"7">>)
  /\ NamesOf("with_cast_names") # <<>>
  /\ Len(ResolvedIds("person")) = 1
  /\ <<"7">> \notin Sent("with_cast")
  /\ Sent("with_cast") # {}

Pending == {i \in 1..Len(posts) : posts[i].pending}
Placeholders(list) == SelectSeq(list, LAMBDA m : m = typingIndicator)
WithRole(list, role) == SelectSeq(list, LAMBDA m : m.role = role)

\* C29: once every send has completed, in whatever order, the transcript
\* holds no typing placeholder and as many assistant replies as user
\* messages.
C29_EverySendEndsInOneReply ==
  Pending = {} =>
    /\ Placeholders(chatMessages) = <<>>
    /\ Len(WithRole(chatMessages, "assistant")) = Len(WithRole(chatMessages, "user"))

\* C30: at most one post is in flight, no posted history holds the typing
\* placeholder, and isAssistantTyping is true exactly while a post is
\* pending.
C30_OneRequestInFlight ==
  /\ Cardinality(Pending) <= 1
  /\ \A i \in 1..Len(posts) : Placeholders(posts[i].messages) = <<>>
  /\ isAssistantTyping <=> Pending # {}

====
